---- MODULE Spec2Model ----
(***************************************************************************)
(* Model of main.py: the in-memory feature store (all_features), its       *)
(* (re)loading from the configured source files, and the request handlers  *)
(* /geojson, /geojson/all, /reload, /stats and /health, which FastAPI runs *)
(* on a pool of worker threads.                                            *)
(*                                                                         *)
(* JSON values are tagged records; the Python operations the handlers      *)
(* apply to them (dict.get, iteration, indexing, max/min, comparison with  *)
(* a float) are modelled with the exceptions they raise.  Coordinates are  *)
(* finite numbers, sampled as small integers.                              *)
(***************************************************************************)
EXTENDS Integers, Sequences, FiniteSets, TLC

\* ------------------------------------------------------------------ bounds
\* Longest collection the pure-handler specification starts from.
MaxLen == 2
\* Number of configured source files modelled (geojson_files lists six).
NumFiles == 2
\* How many times the source files change on disk in one behaviour.
MaxFileChanges == 1
\* How many /reload requests are served in one behaviour.
MaxReloads == 2

\* ------------------------------------------------------- JSON value layer
Num(n) == [t |-> "num", v |-> n]
JTrue == [t |-> "bool", v |-> 1]
Null == [t |-> "null"]
Str(s) == [t |-> "str", v |-> s]
Arr(s) == [t |-> "arr", v |-> s]
Obj(r) == [t |-> "obj", v |-> r]
EmptyObj == [t |-> "obj", v |-> << >>]
EmptyArr == [t |-> "arr", v |-> << >>]
Pt(x, y) == Arr(<<Num(x), Num(y)>>)

\* The outcome of a Python expression that raised an exception.
Raise == [t |-> "raise"]
IsRaise(x) == x.t = "raise"

\* The characters of the strings the catalogue iterates over.
Chars(s) == CASE s = "a" -> <<"a">>
              [] s = "ab" -> <<"a", "b">>

\* d.get(key, default): AttributeError unless d is a dict.
DictGet(d, key, default) ==
    IF d.t # "obj" THEN Raise
    ELSE IF key \in DOMAIN d.v THEN d.v[key] ELSE default

\* The keys of a dict as strings.  Python visits them in insertion order,
\* which the model does not track: every key of the catalogue is one
\* character, so the outcome does not depend on the order.
RECURSIVE KeySeq(_)
KeySeq(ks) ==
    IF ks = {} THEN << >>
    ELSE LET k == CHOOSE x \in ks : TRUE
         IN  <<Str(k)>> \o KeySeq(ks \ {k})

\* The items a for-loop or comprehension over x visits (an Arr), or Raise.
Iter(x) ==
    CASE x.t = "arr" -> x
      [] x.t = "str" -> Arr([k \in 1..Len(Chars(x.v)) |-> Str(Chars(x.v)[k])])
      [] x.t = "obj" -> Arr(KeySeq(DOMAIN x.v))
      [] OTHER -> Raise

\* x[i] for a 0-based integer i.
Index(x, i) ==
    CASE x.t = "arr" -> IF i + 1 <= Len(x.v) THEN x.v[i + 1] ELSE Raise
      [] x.t = "str" -> IF i + 1 <= Len(Chars(x.v)) THEN Str(Chars(x.v)[i + 1]) ELSE Raise
      [] OTHER -> Raise

\* bool(x)
Truthy(x) ==
    CASE x.t = "arr" -> Len(x.v) > 0
      [] x.t = "str" -> Len(Chars(x.v)) > 0
      [] x.t = "obj" -> DOMAIN x.v # {}
      [] x.t = "num" -> x.v # 0
      [] x.t = "bool" -> x.v = 1
      [] OTHER -> FALSE

\* len(x) is defined for sequences and dicts only.
HasLen(x) == x.t \in {"arr", "str", "obj"}

\* Python orders int, float and bool values among themselves (bool is an int).
IsNumber(x) == x.t \in {"num", "bool"}

\* a < b is defined between numbers and between strings; None, lists of
\* points and mixed pairs raise TypeError.
Comparable(a, b) == (IsNumber(a) /\ IsNumber(b)) \/ (a.t = "str" /\ b.t = "str")

\* max(s) / min(s) of a non-empty list: one element needs no comparison.
\* The maximum of several strings is returned as a string; which one is
\* immaterial, only its type decides the comparison with the float bound.
RECURSIVE PyExtreme(_, _)
PyExtreme(s, takeMax) ==
    IF Len(s) = 1 THEN s[1]
    ELSE LET r == PyExtreme(SubSeq(s, 1, Len(s) - 1), takeMax)
             x == s[Len(s)]
         IN  IF IsRaise(r) THEN Raise
             ELSE IF ~Comparable(r, x) THEN Raise
             ELSE IF ~IsNumber(r) THEN r
             ELSE IF takeMax THEN (IF x.v > r.v THEN x ELSE r)
             ELSE (IF x.v < r.v THEN x ELSE r)

PyMax(s) == PyExtreme(s, TRUE)
PyMin(s) == PyExtreme(s, FALSE)

RECURSIVE Concat(_)
Concat(ss) == IF ss = << >> THEN << >> ELSE Head(ss) \o Concat(Tail(ss))

AnyRaise(s) == \E k \in 1..Len(s) : IsRaise(s[k])

\* [c[i] for c in line]: a sequence of values, or Raise.
Column(line, i) ==
    LET it == Iter(line)
    IN  IF IsRaise(it) THEN Raise
        ELSE LET col == [k \in 1..Len(it.v) |-> Index(it.v[k], i)]
             IN  IF AnyRaise(col) THEN Raise ELSE Arr(col)

\* lngs and lats of one line: [lngs |-> seq, lats |-> seq], or Raise.
LinePoints(line) ==
    LET xs == Column(line, 0)
        ys == Column(line, 1)
    IN  IF IsRaise(xs) \/ IsRaise(ys) THEN Raise
        ELSE [t |-> "pts", lngs |-> xs.v, lats |-> ys.v]

\* for line in coords: lngs.extend(...); lats.extend(...)
MultiLinePoints(coords) ==
    LET it == Iter(coords)
    IN  IF IsRaise(it) THEN Raise
        ELSE LET per == [k \in 1..Len(it.v) |-> LinePoints(it.v[k])]
             IN  IF AnyRaise(per) THEN Raise
                 ELSE [t |-> "pts",
                       lngs |-> Concat([k \in 1..Len(per) |-> per[k].lngs]),
                       lats |-> Concat([k \in 1..Len(per) |-> per[k].lats])]

IsType(gt, name) == gt.t = "str" /\ gt.v = name

\* The test with exclusive bounds.
BoxTestExclusive(fn, fs, fe, fw, box) ==
    IF ~IsNumber(fs) THEN "raise"
    ELSE IF ~(fs.v < box.north) THEN "false"
    ELSE IF ~IsNumber(fn) THEN "raise"
    ELSE IF ~(fn.v > box.south) THEN "false"
    ELSE IF ~IsNumber(fw) THEN "raise"
    ELSE IF ~(fw.v < box.east) THEN "false"
    ELSE IF ~IsNumber(fe) THEN "raise"
    ELSE IF fe.v > box.west THEN "true" ELSE "false"

\* The intersection test of lines 101-104 with Python's short-circuit `and`:
\* "true", "false", or "raise" when a comparison that is reached raises
\* TypeError.
BoxTest(fn, fs, fe, fw, box) ==
    IF ~IsNumber(fs) THEN "raise"
    ELSE IF ~(fs.v <= box.north) THEN "false"
    ELSE IF ~IsNumber(fn) THEN "raise"
    ELSE IF ~(fn.v >= box.south) THEN "false"
    ELSE IF ~IsNumber(fw) THEN "raise"
    ELSE IF ~(fw.v <= box.east) THEN "false"
    ELSE IF ~IsNumber(fe) THEN "raise"
    ELSE IF fe.v >= box.west THEN "true" ELSE "false"

\* Lines 90-105 on the flattened lists.
TestPoints(p, box) ==
    IF IsRaise(p) THEN "except"
    ELSE IF p.lngs = << >> \/ p.lats = << >> THEN "continue"
    ELSE LET fn == PyMax(p.lats)
             fs == PyMin(p.lats)
             fe == PyMax(p.lngs)
             fw == PyMin(p.lngs)
         IN  IF IsRaise(fn) \/ IsRaise(fs) \/ IsRaise(fe) \/ IsRaise(fw) THEN "except"
             ELSE LET r == BoxTest(fn, fs, fe, fw, box)
                  IN  IF r = "true" THEN "append"
                      ELSE IF r = "false" THEN "continue"
                      ELSE "except"

\* The Polygon branch, lines 80-86.
PolygonPoints(coords) ==
    IF ~Truthy(coords) THEN [t |-> "skip"]
    ELSE IF ~HasLen(coords) THEN Raise
    ELSE LET ring == Index(coords, 0)
         IN  IF IsRaise(ring) THEN Raise ELSE LinePoints(ring)

\* The loop body without the type check of lines 73 and 87-88: whatever is
\* no MultiLineString or Polygon is read as a LineString.
ProcessFeatureAnyType(f, box) ==
    LET geometry == DictGet(f, "geometry", EmptyObj)
    IN  IF IsRaise(geometry) THEN "except"
        ELSE LET coords == DictGet(geometry, "coordinates", EmptyArr)
                 gt == DictGet(geometry, "type", Str(""))
             IN  IF IsRaise(coords) \/ IsRaise(gt) THEN "except"
                 ELSE IF IsType(gt, "MultiLineString")
                      THEN TestPoints(MultiLinePoints(coords), box)
                 ELSE IF IsType(gt, "Polygon")
                      THEN LET p == PolygonPoints(coords)
                           IN  IF p.t = "skip" THEN "continue" ELSE TestPoints(p, box)
                 ELSE TestPoints(LinePoints(coords), box)

\* One iteration of the loop of get_geojson (lines 64-109) on feature f:
\* "append" (line 105), "continue" (lines 86, 88, 92 or a failed test) or
\* "except" (lines 107-109).
ProcessFeature(f, box) ==
    LET geometry == DictGet(f, "geometry", EmptyObj)
    IN  IF IsRaise(geometry) THEN "except"
        ELSE LET coords == DictGet(geometry, "coordinates", EmptyArr)
                 gt == DictGet(geometry, "type", Str(""))
             IN  IF IsRaise(coords) \/ IsRaise(gt) THEN "except"
                 ELSE IF IsType(gt, "LineString") THEN TestPoints(LinePoints(coords), box)
                 ELSE IF IsType(gt, "MultiLineString")
                      THEN TestPoints(MultiLinePoints(coords), box)
                 ELSE IF IsType(gt, "Polygon")
                      THEN LET p == PolygonPoints(coords)
                           IN  IF p.t = "skip" THEN "continue" ELSE TestPoints(p, box)
                 ELSE "continue"

\* Lines 154-158 for one feature: the key of color_counts that is
\* incremented, or "raise" (feature or properties is no dict, or the colour
\* is unhashable).
KnownColors == {"red", "blue", "yellow", "green", "unknown"}
ColorKey(f) ==
    LET props == DictGet(f, "properties", EmptyObj)
    IN  IF IsRaise(props) THEN "raise"
        ELSE LET color == DictGet(props, "color", Str("unknown"))
             IN  IF IsRaise(color) THEN "raise"
                 ELSE IF color.t \in {"arr", "obj"} THEN "raise"
                 ELSE IF color.t = "str" /\ color.v \in KnownColors THEN color.v
                 ELSE "unknown"

\* ------------------------------------------------------ feature catalogue
\* The feature records the source files and the store hold, by number.
Geom(type, coords) == Obj([type |-> Str(type), coordinates |-> coords])
Feature(geom, props) == Obj([type |-> Str("Feature"), geometry |-> geom, properties |-> props])
Colored(c) == Obj([color |-> c])

Catalogue == <<
    \* 1: a LineString from (1,1) to (2,2)
    Feature(Geom("LineString", Arr(<<Pt(1, 1), Pt(2, 2)>>)), Colored(Str("red"))),
    \* 2: a MultiLineString of two lines, lng 0..2, lat 0..1
    Feature(Geom("MultiLineString", Arr(<<Arr(<<Pt(0, 0)>>), Arr(<<Pt(2, 1)>>)>>)),
            Colored(Str("blue"))),
    \* 3: a Polygon, exterior ring lng 1..2, lat 0..2, and a hole at lng 0
    Feature(Geom("Polygon", Arr(<<Arr(<<Pt(1, 0), Pt(1, 2), Pt(2, 2), Pt(1, 0)>>),
                                  Arr(<<Pt(0, 0), Pt(0, 1)>>)>>)),
            Colored(Str("purple"))),
    \* 4: a Point, properties without a colour
    Feature(Geom("Point", Pt(1, 1)), EmptyObj),
    \* 5: a Polygon with an empty ring list
    Feature(Geom("Polygon", EmptyArr), Colored(Str("green"))),
    \* 6: a LineString without points
    Feature(Geom("LineString", EmptyArr), Colored(Str("yellow"))),
    \* 7: neither geometry nor properties
    Obj([type |-> Str("Feature")]),
    \* 8: "geometry": null, "properties": null
    Feature(Null, Null),
    \* 9: a LineString whose coordinates are strings
    Feature(Geom("LineString", Arr(<<Arr(<<Str("a"), Str("a")>>)>>)), Colored(Str("unknown"))),
    \* 10: a LineString whose coordinates are JSON true
    Feature(Geom("LineString", Arr(<<Arr(<<JTrue, JTrue>>)>>)), Colored(Str("red"))),
    \* 11: a LineString whose point has one coordinate; a numeric colour
    Feature(Geom("LineString", Arr(<<Arr(<<Num(1)>>)>>)), Colored(Num(5))),
    \* 12: a feature that is a string, as loaded from "features": "a"
    Str("a"),
    \* 13: a MultiLineString with the coordinates of a LineString; a list as colour
    Feature(Geom("MultiLineString", Arr(<<Pt(1, 1), Pt(2, 2)>>)), Colored(EmptyArr)),
    \* 14: a LineString with one null coordinate among numbers
    Feature(Geom("LineString", Arr(<<Pt(1, 1), Arr(<<Null, Num(2)>>)>>)), Colored(Str("blue"))),
    \* 15: a Polygon whose coordinates are a number
    Feature(Geom("Polygon", Num(5)), Colored(Str("green"))),
    \* 16: a MultiPoint, whose coordinates have the shape of a LineString's
    Feature(Geom("MultiPoint", Arr(<<Pt(1, 1), Pt(2, 2)>>)), Colored(Str("yellow")))
>>

FeatureIds == 1..Len(Catalogue)

\* The values a query parameter takes: the least and the greatest
\* coordinate of the catalogue, so that each bound of the test is met with
\* equality by feature 1 or feature 2.
Coord == {0, 2}
Boxes == [north : Coord, south : Coord, east : Coord, west : Coord]

\* ------------------------------------------------------------ source files
\* What is on disk for a configured path: nothing; a file that cannot be
\* opened or is not a JSON object; {} ; {"features": "a"} ; a collection.
FileStates == {"absent", "broken", "nofeatures", "strfeatures", "ok"}
Sources == 1..NumFiles

\* The features of source i when it holds a collection.
FileContent(i) ==
    CASE i = 1 -> <<1>>
      [] i = 2 -> <<4>>
      [] OTHER -> <<3>>

\* os.path.exists(file_path)
Exists(st) == st # "absent"

\* Lines 37-39 on a file in state st: the value of `features`, as the
\* sequence of items extend() will append, or the exception of line 42.
ReadFeatures(i, st) ==
    CASE st = "ok" -> [raised |-> FALSE, items |-> FileContent(i)]
      [] st = "nofeatures" -> [raised |-> FALSE, items |-> << >>]
      [] st = "strfeatures" -> [raised |-> FALSE, items |-> <<12>>]
      [] OTHER -> [raised |-> TRUE, items |-> << >>]

\* ------------------------------------------------------------------ state
Workers == {"w1", "w2"}
Threads == {"main"} \cup Workers

VARIABLES
    files,            \* the state on disk of each configured source file
    lists,            \* the list objects in memory, by identity
    all_features,     \* the global: the identity of the list it is bound to
    pc,               \* where each thread is
    loc,              \* each thread's local variables and its response
    fileChanges,      \* how many times the files changed
    reloads,          \* how many /reload requests were accepted
    complete,         \* history: the lists whose building load has returned
    dirty,            \* history: a file changed since the running loads began
    overlap,          \* history: two loads ran at the same time since then
    loadsDone,        \* history: whether a load_all_features call has returned (0/1)
    lastDone,         \* history: the store when the last such call returned
    changedSinceDone  \* history: a file changed since that call began

vars == <<files, lists, all_features, pc, loc, fileChanges, reloads, complete,
          dirty, overlap, loadsDone, lastDone, changedSinceDone>>

history == <<complete, dirty, overlap, loadsDone, lastDone, changedSinceDone>>

ZeroCounts == [c \in KnownColors |-> 0]
NoBox == [north |-> 0, south |-> 0, east |-> 0, west |-> 0]
NoFiles == [i \in Sources |-> "absent"]
NoResp == [kind |-> "none", status |-> "", features |-> << >>, count |-> 0,
           total |-> 0, colors |-> ZeroCounts, avail |-> 0, box |-> NoBox]

\* The locals of a thread that runs no handler.
NoLocals == [i |-> 0, features |-> << >>, mine |-> 0, ref |-> 0, idx |-> 0,
             box |-> NoBox, filtered |-> << >>, counts |-> ZeroCounts, n |-> 0,
             scan |-> << >>, seen |-> NoFiles, resp |-> NoResp]

\* The identities a list object can have: the global's list, one list per
\* thread that still iterates over or builds an older one, and the new one.
Slots == 1..(Cardinality(Threads) + 1)

\* The list the global is bound to now.
Store == lists[all_features]

\* The lists something refers to: the global, a handler's iterator or
\* response (ref), and the load that created the list (mine, history).
Referenced(af, lc) ==
    {af} \cup {lc[p].ref : p \in Threads} \cup {lc[p].mine : p \in Threads}

\* CPython frees a list when the last reference to it goes.
Collect(ls, af, lc) == [k \in Slots |-> IF k \in Referenced(af, lc) THEN ls[k] ELSE << >>]

\* The identity of a newly allocated list.
NewList ==
    CHOOSE k \in Slots :
        /\ k \notin Referenced(all_features, loc)
        /\ \A j \in 1..(k - 1) : j \in Referenced(all_features, loc)

\* len([f for f in geojson_files if os.path.exists(f)])
FilesAvailable(fs) == Cardinality({i \in Sources : Exists(fs[i])})

\* A thread is inside load_all_features, past line 32.
InLoad(p) == pc[p] \in {"L35", "L37", "L40", "L47"}

\* The module as imported up to line 27, about to run line 50, with the
\* source files in one of the states of fs.
InitWith(fs) ==
    /\ files \in [Sources -> fs]
    /\ lists = [k \in Slots |-> << >>]
    /\ all_features = 1
    /\ complete = {}
    /\ pc = [p \in Threads |-> IF p = "main" THEN "L32" ELSE "idle"]
    /\ loc = [p \in Threads |-> NoLocals]
    /\ fileChanges = 0
    /\ reloads = 0
    /\ dirty = FALSE
    /\ overlap = FALSE
    /\ loadsDone = 0
    /\ lastDone = << >>
    /\ changedSinceDone = FALSE

\* ------------------------------------------------------- load_all_features
\* The loop variable after source i: the next source, or line 47.
NextSource(p, i) ==
    IF i < NumFiles
    THEN /\ pc' = [pc EXCEPT ![p] = "L35"]
         /\ loc' = [loc EXCEPT ![p].i = i + 1, ![p].features = << >>]
    ELSE /\ pc' = [pc EXCEPT ![p] = "L47"]
         /\ loc' = [loc EXCEPT ![p].i = 0, ![p].features = << >>]

\* Line 32: all_features = [] binds the global to a new empty list.
Load32(p) ==
    /\ pc[p] = "L32"
    /\ all_features' = NewList
    /\ pc' = [pc EXCEPT ![p] = "L35"]
    /\ loc' = [loc EXCEPT ![p].i = 1, ![p].mine = NewList]
    /\ lists' = Collect(lists, all_features', loc')
    /\ complete' = complete \cap Referenced(all_features', loc')
    /\ IF \E q \in Threads : InLoad(q)
       THEN overlap' = TRUE /\ dirty' = dirty
       ELSE overlap' = FALSE /\ dirty' = FALSE
    /\ UNCHANGED <<files, fileChanges, reloads, loadsDone, lastDone, changedSinceDone>>

\* Line 35: os.path.exists(file_path); line 45 when it does not.
Load35(p) ==
    /\ pc[p] = "L35"
    /\ IF Exists(files[loc[p].i])
       THEN pc' = [pc EXCEPT ![p] = "L37"] /\ loc' = loc
       ELSE NextSource(p, loc[p].i)
    /\ UNCHANGED <<files, lists, all_features, fileChanges, reloads, history>>

\* Lines 37-39: open, json.load, data.get("features", []); lines 42-43 when
\* one of them raises.
Load37(p) ==
    /\ pc[p] = "L37"
    /\ LET r == ReadFeatures(loc[p].i, files[loc[p].i])
       IN  IF r.raised
           THEN NextSource(p, loc[p].i)
           ELSE /\ pc' = [pc EXCEPT ![p] = "L40"]
                /\ loc' = [loc EXCEPT ![p].features = r.items]
    /\ UNCHANGED <<files, lists, all_features, fileChanges, reloads, history>>

\* Line 40: all_features.extend(features) on the list the global is bound
\* to when the line runs.
Load40(p) ==
    /\ pc[p] = "L40"
    /\ lists' = [lists EXCEPT ![all_features] = @ \o loc[p].features]
    /\ NextSource(p, loc[p].i)
    /\ UNCHANGED <<files, all_features, fileChanges, reloads, history>>

\* Line 47 and the return: to the server start (line 50) or to line 141.
Load47(p) ==
    /\ pc[p] = "L47"
    /\ pc' = [pc EXCEPT ![p] = IF p = "main" THEN "serving" ELSE "R141"]
    /\ loc' = [loc EXCEPT ![p].mine = 0]
    /\ lists' = Collect(lists, all_features, loc')
    /\ complete' = (complete \cup {loc[p].mine}) \cap Referenced(all_features, loc')
    /\ loadsDone' = 1
    /\ lastDone' = Store
    /\ changedSinceDone' = dirty
    /\ UNCHANGED <<files, all_features, fileChanges, reloads, dirty, overlap>>

\* ------------------------------------------------------------ the handlers
\* The server takes requests once the module is imported (line 50 is done).
Serving == pc["main"] = "serving"

\* /reload, line 140: the call of load_all_features.
ReloadStart(w) ==
    /\ Serving /\ pc[w] = "idle"
    /\ reloads < MaxReloads
    /\ reloads' = reloads + 1
    /\ pc' = [pc EXCEPT ![w] = "L32"]
    /\ UNCHANGED <<files, lists, all_features, loc, fileChanges, history>>

\* /reload, lines 141-146.
Reload141(w) ==
    /\ pc[w] = "R141"
    /\ pc' = [pc EXCEPT ![w] = "done"]
    /\ loc' = [loc EXCEPT ![w].resp = [NoResp EXCEPT !.kind = "reload",
                   !.status = "reloaded", !.total = Len(Store),
                   !.avail = FilesAvailable(files)]]
    /\ UNCHANGED <<files, lists, all_features, fileChanges, reloads, history>>

\* /geojson, lines 61-63: the query box, filtered = [] and the iterator of
\* the for loop, over the list the global is bound to now.
GeojsonStart(w, box) ==
    /\ Serving /\ pc[w] = "idle"
    /\ pc' = [pc EXCEPT ![w] = "Q64"]
    /\ loc' = [loc EXCEPT ![w].box = box, ![w].ref = all_features]
    /\ UNCHANGED <<files, lists, all_features, fileChanges, reloads, history>>

\* /geojson, lines 63-109: the iterator's next item, if the list has one at
\* its position now, and the loop body on it.
GeojsonStep(w) ==
    /\ pc[w] = "Q64"
    /\ LET l == loc[w]
       IN  IF l.idx < Len(lists[l.ref])
           THEN LET f == lists[l.ref][l.idx + 1]
                IN  /\ loc' = [loc EXCEPT ![w].idx = l.idx + 1,
                               ![w].scan = Append(l.scan, f),
                               ![w].filtered =
                                   IF ProcessFeature(Catalogue[f], l.box) = "append"
                                   THEN Append(l.filtered, f) ELSE l.filtered]
                    /\ pc' = pc
           ELSE /\ pc' = [pc EXCEPT ![w] = "Q111"]
                /\ loc' = loc
    /\ UNCHANGED <<files, lists, all_features, fileChanges, reloads, history>>

\* /geojson, lines 111-124: the response, with len(all_features) read now.
Geojson111(w) ==
    /\ pc[w] = "Q111"
    /\ pc' = [pc EXCEPT ![w] = "done"]
    /\ loc' = [loc EXCEPT ![w].resp = [NoResp EXCEPT !.kind = "geojson",
                   !.features = loc[w].filtered, !.count = Len(loc[w].filtered),
                   !.total = Len(Store), !.box = loc[w].box]]
    /\ UNCHANGED <<files, lists, all_features, fileChanges, reloads, history>>

\* /geojson/all, line 131: "features": all_features.
All131(w) ==
    /\ Serving /\ pc[w] = "idle"
    /\ pc' = [pc EXCEPT ![w] = "A133"]
    /\ loc' = [loc EXCEPT ![w].ref = all_features, ![w].scan = Store]
    /\ UNCHANGED <<files, lists, all_features, fileChanges, reloads, history>>

\* /geojson/all, line 133: len(all_features).
All133(w) ==
    /\ pc[w] = "A133"
    /\ pc' = [pc EXCEPT ![w] = "A129"]
    /\ loc' = [loc EXCEPT ![w].n = Len(Store)]
    /\ UNCHANGED <<files, lists, all_features, fileChanges, reloads, history>>

\* /geojson/all, line 129: JSONResponse renders the list read at line 131.
All129(w) ==
    /\ pc[w] = "A129"
    /\ pc' = [pc EXCEPT ![w] = "done"]
    /\ loc' = [loc EXCEPT ![w].resp = [NoResp EXCEPT !.kind = "all",
                   !.features = lists[loc[w].ref], !.total = loc[w].n]]
    /\ UNCHANGED <<files, lists, all_features, fileChanges, reloads, history>>

\* /stats, lines 151-153: color_counts and the iterator of the for loop.
StatsStart(w) ==
    /\ Serving /\ pc[w] = "idle"
    /\ pc' = [pc EXCEPT ![w] = "S154"]
    /\ loc' = [loc EXCEPT ![w].ref = all_features, ![w].counts = ZeroCounts]
    /\ UNCHANGED <<files, lists, all_features, fileChanges, reloads, history>>

\* /stats, lines 153-158: the next feature and its tally.  An exception
\* leaves the handler: the request is answered with an error.
StatsStep(w) ==
    /\ pc[w] = "S154"
    /\ LET l == loc[w]
       IN  IF l.idx < Len(lists[l.ref])
           THEN LET f == lists[l.ref][l.idx + 1]
                    key == ColorKey(Catalogue[f])
                IN  IF key = "raise"
                    THEN /\ pc' = [pc EXCEPT ![w] = "done"]
                         /\ loc' = [loc EXCEPT ![w].scan = Append(l.scan, f),
                                    ![w].resp = [NoResp EXCEPT !.kind = "error"]]
                    ELSE /\ pc' = pc
                         /\ loc' = [loc EXCEPT ![w].idx = l.idx + 1,
                                    ![w].scan = Append(l.scan, f),
                                    ![w].counts[key] = @ + 1]
           ELSE /\ pc' = [pc EXCEPT ![w] = "S160"]
                /\ loc' = loc
    /\ UNCHANGED <<files, lists, all_features, fileChanges, reloads, history>>

\* /stats, lines 160-165: the response, with len(all_features) read now.
Stats160(w) ==
    /\ pc[w] = "S160"
    /\ pc' = [pc EXCEPT ![w] = "done"]
    /\ loc' = [loc EXCEPT ![w].resp = [NoResp EXCEPT !.kind = "stats",
                   !.total = Len(Store), !.colors = loc[w].counts,
                   !.avail = FilesAvailable(files)]]
    /\ UNCHANGED <<files, lists, all_features, fileChanges, reloads, history>>

\* Line 173: the status for files_available available files, with
\* features_loaded features in the store.
HealthStatusByStore(files_available, features_loaded) ==
    IF features_loaded > 0 THEN "healthy" ELSE "error"

HealthStatus(files_available, features_loaded) ==
    IF files_available > 0 THEN "healthy" ELSE "error"

\* /health, lines 170-177.
Health(w) ==
    /\ Serving /\ pc[w] = "idle"
    /\ pc' = [pc EXCEPT ![w] = "done"]
    /\ loc' = [loc EXCEPT ![w].seen = files, ![w].n = Len(Store),
               ![w].resp = [NoResp EXCEPT !.kind = "health",
                   !.status = HealthStatus(FilesAvailable(files), Len(Store)),
                   !.total = Len(Store), !.avail = FilesAvailable(files)]]
    /\ UNCHANGED <<files, lists, all_features, fileChanges, reloads, history>>

\* The response is sent and the handler's locals are gone.
Finish(w) ==
    /\ pc[w] = "done"
    /\ pc' = [pc EXCEPT ![w] = "idle"]
    /\ loc' = [loc EXCEPT ![w] = NoLocals]
    /\ lists' = Collect(lists, all_features, loc')
    /\ complete' = complete \cap Referenced(all_features, loc')
    /\ UNCHANGED <<files, all_features, fileChanges, reloads,
                   dirty, overlap, loadsDone, lastDone, changedSinceDone>>

\* ------------------------------------------------------------ environment
\* A source file is created, removed or rewritten on disk.
FileChange(i, st) ==
    /\ fileChanges < MaxFileChanges
    /\ st # files[i]
    /\ files' = [files EXCEPT ![i] = st]
    /\ fileChanges' = fileChanges + 1
    /\ dirty' = TRUE
    /\ changedSinceDone' = TRUE
    /\ UNCHANGED <<lists, all_features, pc, loc, reloads, complete, overlap,
                   loadsDone, lastDone>>

\* The boxes the requests of the server specifications ask for.
SampleBoxes == {[north |-> 2, south |-> 0, east |-> 2, west |-> 0],
                [north |-> 0, south |-> 2, east |-> 0, west |-> 2]}

\* The whole server: the import, then two worker threads that serve any
\* request, over source files that are present or absent.
Init == InitWith({"ok", "absent"})

Next ==
    \/ \E p \in Threads : Load32(p)
    \/ \E p \in Threads : Load35(p)
    \/ \E p \in Threads : Load37(p)
    \/ \E p \in Threads : Load40(p)
    \/ \E p \in Threads : Load47(p)
    \/ \E w \in Workers : ReloadStart(w)
    \/ \E w \in Workers : Reload141(w)
    \/ \E w \in Workers : \E box \in SampleBoxes : GeojsonStart(w, box)
    \/ \E w \in Workers : GeojsonStep(w)
    \/ \E w \in Workers : Geojson111(w)
    \/ \E w \in Workers : All131(w)
    \/ \E w \in Workers : All133(w)
    \/ \E w \in Workers : All129(w)
    \/ \E w \in Workers : StatsStart(w)
    \/ \E w \in Workers : StatsStep(w)
    \/ \E w \in Workers : Stats160(w)
    \/ \E w \in Workers : Health(w)
    \/ \E w \in Workers : Finish(w)
    \/ \E i \in Sources : \E st \in {"ok", "absent"} : FileChange(i, st)

Spec == Init /\ [][Next]_vars

\* The server with one worker thread, which serves one request at a time,
\* over source files in any state.
InitOne == InitWith(FileStates)

NextOne ==
    \/ \E p \in {"main", "w1"} : Load32(p)
    \/ \E p \in {"main", "w1"} : Load35(p)
    \/ \E p \in {"main", "w1"} : Load37(p)
    \/ \E p \in {"main", "w1"} : Load40(p)
    \/ \E p \in {"main", "w1"} : Load47(p)
    \/ ReloadStart("w1")
    \/ Reload141("w1")
    \/ \E box \in SampleBoxes : GeojsonStart("w1", box)
    \/ GeojsonStep("w1")
    \/ Geojson111("w1")
    \/ All131("w1")
    \/ All133("w1")
    \/ All129("w1")
    \/ StatsStart("w1")
    \/ StatsStep("w1")
    \/ Stats160("w1")
    \/ Health("w1")
    \/ Finish("w1")
    \/ \E i \in Sources : \E st \in FileStates : FileChange(i, st)

SpecOne == InitOne /\ [][NextOne]_vars

\* The read handlers as functions of the store: the server after a load
\* that left any collection of at most MaxLen catalogue features, one
\* worker thread, any query box, no reload.
Stores == UNION {[1..n -> FeatureIds] : n \in 0..MaxLen}

InitQuery ==
    /\ files = NoFiles
    /\ \E st \in Stores : /\ lists = [k \in Slots |-> IF k = 1 THEN st ELSE << >>]
                          /\ lastDone = st
    /\ all_features = 1
    /\ pc = [p \in Threads |-> IF p = "main" THEN "serving" ELSE "idle"]
    /\ loc = [p \in Threads |-> NoLocals]
    /\ fileChanges = 0
    /\ reloads = 0
    /\ complete = {1}
    /\ dirty = FALSE
    /\ overlap = FALSE
    /\ loadsDone = 1
    /\ changedSinceDone = FALSE

NextQuery ==
    \/ \E box \in Boxes : GeojsonStart("w1", box)
    \/ GeojsonStep("w1")
    \/ Geojson111("w1")
    \/ All131("w1")
    \/ All133("w1")
    \/ All129("w1")
    \/ StatsStart("w1")
    \/ StatsStep("w1")
    \/ Stats160("w1")
    \/ Finish("w1")

SpecQuery == InitQuery /\ [][NextQuery]_vars

\* ------------------------------------------------------------------ claims
\* What the claims say of a feature, stated on the JSON document itself.
Supported == {"LineString", "MultiLineString", "Polygon"}
IsJsonNumber(x) == x.t = "num"

GeometryOf(f) ==
    IF f.t = "obj" /\ "geometry" \in DOMAIN f.v /\ f.v.geometry.t = "obj"
    THEN f.v.geometry.v ELSE << >>

TypeOf(f) ==
    LET g == GeometryOf(f)
    IN  IF "type" \in DOMAIN g /\ g.type.t = "str" THEN g.type.v ELSE ""

\* A line: a list of points, each a list of at least two numbers.
LineOK(l, Numeric(_)) ==
    /\ l.t = "arr"
    /\ \A k \in 1..Len(l.v) :
          /\ l.v[k].t = "arr"
          /\ Len(l.v[k].v) >= 2
          /\ Numeric(l.v[k].v[1])
          /\ Numeric(l.v[k].v[2])

\* The lines whose points count for the feature's type: the line, every
\* line, or the exterior ring.
LinesOf(f) ==
    LET g == GeometryOf(f)
        c == IF "coordinates" \in DOMAIN g THEN g.coordinates ELSE EmptyArr
    IN  CASE TypeOf(f) = "LineString" -> <<c>>
          [] TypeOf(f) = "MultiLineString" /\ c.t = "arr" -> c.v
          [] TypeOf(f) = "Polygon" /\ c.t = "arr" /\ Len(c.v) > 0 -> <<c.v[1]>>
          [] OTHER -> << >>

\* The geometry has a supported type and the shape that type prescribes.
ShapeOK(f, Numeric(_)) ==
    /\ TypeOf(f) \in Supported
    /\ \A k \in 1..Len(LinesOf(f)) : LineOK(LinesOf(f)[k], Numeric)

\* The flattened coordinate list, as the set of its <<lng, lat>> pairs.
PointSet(f) ==
    UNION {{<<LinesOf(f)[k].v[j].v[1].v, LinesOf(f)[k].v[j].v[2].v>> :
               j \in 1..Len(LinesOf(f)[k].v)} : k \in 1..Len(LinesOf(f))}

\* The inclusive overlap rule: featureSouth <= north, featureNorth >= south,
\* featureWest <= east, featureEast >= west.  Coordinates count as Python
\* compares them with a float.
Overlaps(f, box) ==
    /\ ShapeOK(f, IsNumber)
    /\ PointSet(f) # {}
    /\ \E q \in PointSet(f) : q[2] <= box.north
    /\ \E q \in PointSet(f) : q[2] >= box.south
    /\ \E q \in PointSet(f) : q[1] <= box.east
    /\ \E q \in PointSet(f) : q[1] >= box.west

RECURSIVE Keep(_, _)
Keep(ids, box) ==
    IF ids = << >> THEN << >>
    ELSE IF Overlaps(Catalogue[Head(ids)], box)
         THEN <<Head(ids)>> \o Keep(Tail(ids), box)
         ELSE Keep(Tail(ids), box)

Answered(w, kind) == pc[w] = "done" /\ loc[w].resp.kind = kind

Reading(w) == pc[w] \in {"Q64", "Q111", "A133", "A129", "S154", "S160"}

\* C2: a /geojson, /geojson/all or /stats request that runs during a reload
\* reads a complete collection, never an empty or partly filled one: the
\* list it reads is one whose load_all_features call has returned, or holds
\* what the store held when the last such call returned.
C2_ReadersSeeCompleteCollection ==
    \A w \in Workers :
        Reading(w) => (loc[w].ref \in complete \/ lists[loc[w].ref] = lastDone)

\* C3: metadata.total_searched of a /geojson response is the number of
\* features the query scanned, also when a reload runs between the scan and
\* the construction of the response.
C3_TotalSearchedIsScanned ==
    \A w \in Workers :
        Answered(w, "geojson") => loc[w].resp.total = Len(loc[w].scan)

\* No thread is inside load_all_features or about to call it.
NoLoadRunning == \A p \in Threads : pc[p] \notin {"L32", "L35", "L37", "L40", "L47"}

\* C4: with the source files unchanged since the previous completed load
\* began, the store holds at the end of a reload the features it held after
\* that load, in the same order.
C4_ReloadIdempotent ==
    \A p \in Workers :
        (pc[p] = "L47" /\ loadsDone = 1 /\ ~changedSinceDone) => Store = lastDone

\* The features a source contributes according to the specification: those
\* of a document with a features sequence, none otherwise.
Contribution(i, st) == IF st = "ok" THEN FileContent(i) ELSE << >>

\* C5: after load() the store is the concatenation, in source order, of the
\* features of the sources that exist and parse; an absent, unreadable or
\* malformed source, or one without a features field, contributes nothing.
C5_LoadConcatenatesSources ==
    (NoLoadRunning /\ loadsDone = 1 /\ ~dirty) =>
        Store = Concat([i \in Sources |-> Contribution(i, files[i])])

\* C6: a structurally malformed feature (missing fields, wrong shapes,
\* coordinates that are no JSON numbers), a Polygon without rings and a
\* feature without points are never in a /geojson response, which is always
\* produced, and the well-formed features are kept or dropped as the rule
\* says whatever else the collection holds.
C6_MalformedExcluded ==
    \A w \in Workers :
        Answered(w, "geojson") =>
            \A k \in 1..Len(loc[w].resp.features) :
                LET f == Catalogue[loc[w].resp.features[k]]
                IN  ShapeOK(f, IsJsonNumber) /\ PointSet(f) # {}

ColorSum(c) == c["red"] + c["blue"] + c["yellow"] + c["green"] + c["unknown"]

\* The colour is absent or none of red, blue, yellow, green.
ColorUnknown(f) ==
    ~(/\ f.t = "obj"
      /\ "properties" \in DOMAIN f.v
      /\ f.v.properties.t = "obj"
      /\ "color" \in DOMAIN f.v.properties.v
      /\ f.v.properties.v.color.t = "str"
      /\ f.v.properties.v.color.v \in {"red", "blue", "yellow", "green"})

\* C7: for every collection the store can hold, /stats answers with colour
\* counts that sum to total_features, and counts under unknown every feature
\* whose colour is absent or none of red, blue, yellow, green.
C7_StatsSumToTotal ==
    \A w \in Workers :
        (pc[w] = "done" /\ loc[w].resp.kind \in {"stats", "error"}) =>
            /\ loc[w].resp.kind = "stats"
            /\ ColorSum(loc[w].resp.colors) = loc[w].resp.total
            /\ loc[w].resp.colors["unknown"] =
                   Cardinality({k \in 1..Len(Store) : ColorUnknown(Catalogue[Store[k]])})

InSeq(x, sq) == \E k \in 1..Len(sq) : sq[k] = x

\* C8: a feature whose geometry type is not LineString, MultiLineString or
\* Polygon is in no /geojson response, whatever the box, and is in the
\* /geojson/all response whenever it is in the store.
C8_UnsupportedTypes ==
    \A w \in Workers :
        /\ Answered(w, "geojson") =>
               \A k \in 1..Len(loc[w].resp.features) :
                   TypeOf(Catalogue[loc[w].resp.features[k]]) \in Supported
        /\ Answered(w, "all") =>
               \A k \in 1..Len(loc[w].scan) :
                   TypeOf(Catalogue[loc[w].scan[k]]) \notin Supported
                       => InSeq(loc[w].scan[k], loc[w].resp.features)

\* C8 witness: a Point and a LineString in the store and a box that covers
\* both: the /geojson response holds the LineString alone.
C8_Witness ==
    /\ Answered("w1", "geojson")
    /\ Store = <<4, 1>>
    /\ loc["w1"].resp.box = [north |-> 2, south |-> 0, east |-> 2, west |-> 0]
    /\ loc["w1"].resp.features = <<1>>

\* C9: /health answers "error" exactly when none of the configured source
\* files exists at the request, however many features the store holds, and
\* "healthy" otherwise.
C9_HealthReflectsFiles ==
    \A w \in Workers :
        Answered(w, "health") =>
            /\ loc[w].resp.status \in {"healthy", "error"}
            /\ loc[w].resp.status = "error" <=> \A i \in Sources : loc[w].seen[i] = "absent"

\* C9 witness: every file is gone, the store still holds the features of an
\* earlier load, and /health answers "error".
C9_Witness ==
    /\ Answered("w1", "health")
    /\ loc["w1"].resp.status = "error"
    /\ loc["w1"].n > 0
    /\ Len(Store) > 0

\* What one load_all_features call alone leaves in the store.
LoadResult(fs) ==
    Concat([i \in Sources |->
               IF Exists(fs[i]) /\ ~ReadFeatures(i, fs[i]).raised
               THEN ReadFeatures(i, fs[i]).items ELSE << >>])

\* C10: once reloads that ran concurrently over unchanged files have all
\* returned, the store is the in-order concatenation of the readable
\* sources' features, each source once.
C10_ConcurrentReloads ==
    (NoLoadRunning /\ overlap /\ ~dirty) => Store = LoadResult(files)
====
